---------------------------- MODULE Spec2Model ----------------------------
(***************************************************************************)
(* A model of k8scan (src/k8scan/main.go): the -ports flag parser          *)
(* (intSlice.Set), the address enumeration loop of main (ip.Mask,          *)
(* ipnet.Contains, inc), the goroutine fan-out with its sync.WaitGroup,    *)
(* and the per-target pipeline scanIP (portOpen, isKubernetesDashboard,    *)
(* getIPInfo, the Finding line, sendEmail).                                *)
(*                                                                         *)
(* Strings are sequences of one-character strings, so that ToLower,        *)
(* Contains, Split and Atoi are computed the way the Go code computes      *)
(* them.  Addresses are byte sequences; the width of a byte and the number *)
(* of bytes of an address are scaled down (ByteBits, IPLen) so that a      *)
(* whole address space, wrap-around included, can be enumerated.           *)
(***************************************************************************)
EXTENDS Integers, Sequences, FiniteSets, TLC

VARIABLES
    mainpc,     \* position of the main goroutine: "flags" (flag.Parse in init),
                \* "loop", "ports", "wait", "report", "done", "exit"
    value,      \* the text last handed to intSlice.Set by flag.Parse
    ports,      \* the package variable ports (an intSlice)
    setErr,     \* TRUE iff the last intSlice.Set returned a non-nil error
    ipnet,      \* the *net.IPNet of net.ParseCIDR(cidr): [IP, Mask]
    ip,         \* the loop variable ip of main, advanced in place by inc
    portIdx,    \* index of the inner range loop over ports (1-based)
    visited,    \* history: the addresses for which the loop body was entered
    wg,         \* the counter of the sync.WaitGroup
    pipes,      \* the goroutines started so far, in start order
    stdout,     \* the lines printed by fmt.Printf, in print order
    mail        \* [domain, key, rcpt]: mailgunDomain, mailgunAPIKey, emailRecipient

vars == <<mainpc, value, ports, setErr, ipnet, ip, portIdx, visited, wg, pipes, stdout, mail>>

flagVars == <<value, ports, setErr>>
loopVars == <<ipnet, ip, portIdx, visited>>

(***************************************************************************)
(* Bounds of the model.                                                    *)
(***************************************************************************)
\* longest enumerated port specification, in characters
MaxSpecLen == 5
MaxFragments == 3
\* bits of one address byte (8 in Go)
ByteBits == 2
\* bytes of one address (net.IPv4len = 4, net.IPv6len = 16 in Go)
IPLen == 2

(***************************************************************************)
(* Strings.                                                                *)
(***************************************************************************)
UpperCase == <<"A", "B", "C", "D", "E", "F", "G", "H", "I", "J", "K", "L", "M",
               "N", "O", "P", "Q", "R", "S", "T", "U", "V", "W", "X", "Y", "Z">>
LowerCase == <<"a", "b", "c", "d", "e", "f", "g", "h", "i", "j", "k", "l", "m",
               "n", "o", "p", "q", "r", "s", "t", "u", "v", "w", "x", "y", "z">>

\* unicode.ToLower on one ASCII character
ToLowerChar(c) ==
    IF \E k \in 1..26 : UpperCase[k] = c
    THEN LowerCase[CHOOSE k \in 1..26 : UpperCase[k] = c]
    ELSE c

\* strings.ToLower
ToLower(s) == [k \in 1..Len(s) |-> ToLowerChar(s[k])]

\* strings.Contains(s, substr)
Contains(s, substr) ==
    \E k \in 0..(Len(s) - Len(substr)) :
        \A j \in 1..Len(substr) : s[k + j] = substr[j]

\* strings.Index(s, c) for a one-character separator; 0 when c does not occur
IndexChar(s, c) ==
    IF \E k \in 1..Len(s) : s[k] = c
    THEN CHOOSE k \in 1..Len(s) : s[k] = c /\ \A j \in 1..(k - 1) : s[j] # c
    ELSE 0

\* strings.Split(s, sep) for a one-character separator and non-empty s:
\* always at least one (possibly empty) field
RECURSIVE Split(_, _)
Split(s, sep) ==
    LET k == IndexChar(s, sep) IN
    IF k = 0 THEN <<s>>
    ELSE <<SubSeq(s, 1, k - 1)>> \o Split(SubSeq(s, k + 1, Len(s)), sep)

\* strings.SplitN(s, sep, 2): cut at the first separator only
SplitN2(s, sep) ==
    LET k == IndexChar(s, sep) IN
    IF k = 0 THEN <<s>>
    ELSE <<SubSeq(s, 1, k - 1), SubSeq(s, k + 1, Len(s))>>

Digits == <<"0", "1", "2", "3", "4", "5", "6", "7", "8", "9">>
IsDigit(c) == \E d \in 1..10 : Digits[d] = c
DigitVal(c) == (CHOOSE d \in 1..10 : Digits[d] = c) - 1

RECURSIVE DecimalValue(_)
DecimalValue(s) ==
    IF s = <<>> THEN 0
    ELSE 10 * DecimalValue(SubSeq(s, 1, Len(s) - 1)) + DigitVal(s[Len(s)])

\* strconv.Atoi: an optional sign, then one or more decimal digits.
\* [val, err]; val is 0 when err is TRUE.  (The texts of the model are far
\* shorter than the 19 digits at which Atoi reports a range error.)
Atoi(s) ==
    LET signed == Len(s) > 0 /\ s[1] \in {"+", "-"}
        body   == IF signed THEN SubSeq(s, 2, Len(s)) ELSE s
    IN  IF Len(body) = 0 \/ \E k \in 1..Len(body) : ~IsDigit(body[k])
        THEN [val |-> 0, err |-> TRUE]
        ELSE [val |-> IF signed /\ s[1] = "-" THEN 0 - DecimalValue(body)
                      ELSE DecimalValue(body),
              err |-> FALSE]

(***************************************************************************)
(* intSlice.Set.                                                           *)
(***************************************************************************)
defaultPorts == <<80, 443, 8001, 9001>>

\* the range loop with "port < end": the end port is left out
AppendRangeOpen(i, begin, end) == i \o [k \in 1..(end - begin) |-> begin + k - 1]

\* for port := begin; port <= end; port++ { *i = append(*i, port) }
AppendRange(i, begin, end) == i \o [k \in 1..(end - begin + 1) |-> begin + k - 1]

\* SetToken without the test "begin > end"
SetTokenAnyOrder(i, pr) ==
    IF Contains(pr, <<"-">>)
    THEN LET p     == SplitN2(pr, "-")
             begin == Atoi(p[1])
             end   == Atoi(p[2])
         IN  IF begin.err THEN [ports |-> i, err |-> TRUE]
             ELSE IF end.err THEN [ports |-> i, err |-> TRUE]
             ELSE [ports |-> i \o [k \in 1..(end.val - begin.val + 1) |-> begin.val + k - 1],
                   err |-> FALSE]
    ELSE LET port == Atoi(pr)
         IN  IF port.err THEN [ports |-> i, err |-> TRUE]
             ELSE [ports |-> Append(i, port.val), err |-> FALSE]

\* one iteration of "for _, pr := range r": [ports, err]
SetToken(i, pr) ==
    IF Contains(pr, <<"-">>)
    THEN LET p     == SplitN2(pr, "-")
             begin == Atoi(p[1])
             end   == Atoi(p[2])
         IN  IF begin.err THEN [ports |-> i, err |-> TRUE]
             ELSE IF end.err THEN [ports |-> i, err |-> TRUE]
             ELSE IF begin.val > end.val THEN [ports |-> i, err |-> TRUE]
             ELSE [ports |-> AppendRange(i, begin.val, end.val), err |-> FALSE]
    ELSE LET port == Atoi(pr)
         IN  IF port.err THEN [ports |-> i, err |-> TRUE]
             ELSE [ports |-> Append(i, port.val), err |-> FALSE]

\* the loop over the tokens: it returns at the first token in error, with
\* the ports of the tokens before it already appended
RECURSIVE SetTokens(_, _)
SetTokens(i, r) ==
    IF r = <<>> THEN [ports |-> i, err |-> FALSE]
    ELSE LET one == SetToken(i, Head(r))
         IN  IF one.err THEN one ELSE SetTokens(one.ports, Tail(r))

\* func (i *intSlice) Set(value string) error: [ports, err]
Set(i, v) ==
    IF Len(v) <= 0 THEN [ports |-> defaultPorts, err |-> FALSE]
    ELSE SetTokens(i, Split(v, ","))

(***************************************************************************)
(* Addresses: net.IP, net.IPMask, net.IPNet and inc.                       *)
(***************************************************************************)
RECURSIVE Pow2(_)
Pow2(n) == IF n = 0 THEN 1 ELSE 2 * Pow2(n - 1)

\* number of values of one byte (256 in Go)
ByteMod == Pow2(ByteBits)
\* address width in bits
AddrBits == ByteBits * IPLen

Bytes == 0..(ByteMod - 1)
Addrs == [1..IPLen -> Bytes]

\* a & b on bytes, bit by bit
RECURSIVE BitAnd(_, _, _)
BitAnd(a, b, n) ==
    IF n = 0 THEN 0
    ELSE ((a % 2) * (b % 2)) + 2 * BitAnd(a \div 2, b \div 2, n - 1)

\* net.CIDRMask(ones, bits): the first `ones` bits set, byte by byte
CIDRMask(ones) ==
    [k \in 1..IPLen |->
        LET n == ones - (k - 1) * ByteBits
        IN  IF n >= ByteBits THEN ByteMod - 1
            ELSE IF n <= 0 THEN 0
            ELSE ByteMod - Pow2(ByteBits - n)]

\* func (ip IP) Mask(mask IPMask) IP: a fresh slice, ip[k] & mask[k]
Mask(a, m) == [k \in 1..IPLen |-> BitAnd(a[k], m[k], ByteBits)]

\* net.ParseCIDR: the network is the address masked to the prefix
ParseCIDR(a, prefix) == [IP |-> Mask(a, CIDRMask(prefix)), Mask |-> CIDRMask(prefix)]

\* func (n *IPNet) Contains(ip IP) bool
IPNetContains(n, a) ==
    \A k \in 1..IPLen :
        BitAnd(n.IP[k], n.Mask[k], ByteBits) = BitAnd(a[k], n.Mask[k], ByteBits)

\* the loop of inc from index j down: ip[j]++ wraps within the byte, and the
\* loop breaks at the first byte that did not wrap to 0
RECURSIVE incFrom(_, _)
incFrom(a, j) ==
    IF j = 0 THEN a
    ELSE LET b == (a[j] + 1) % ByteMod
             n == [a EXCEPT ![j] = b]
         IN  IF b > 0 THEN n ELSE incFrom(n, j - 1)

\* func inc(ip net.IP)
inc(a) == incFrom(a, Len(a))

\* strconv.Itoa for a non-negative number
RECURSIVE Itoa(_)
Itoa(n) == IF n < 10 THEN <<Digits[n + 1]>> ELSE Itoa(n \div 10) \o <<Digits[(n % 10) + 1]>>

\* func (ip IP) String() string: the bytes in decimal, joined by "."
RECURSIVE DottedFrom(_, _)
DottedFrom(a, k) ==
    IF k = Len(a) THEN Itoa(a[k])
    ELSE Itoa(a[k]) \o <<".">> \o DottedFrom(a, k + 1)

String(a) == DottedFrom(a, 1)

(***************************************************************************)
(* isKubernetesDashboard: the candidate URIs and the signature test.       *)
(***************************************************************************)
\* the empty string returned as the URI of a negative result
NoURI == [scheme |-> "", host |-> <<>>, port |-> 0, path |-> ""]

\* tryAddrs: fmt.Sprintf("http://%s:%d", ip, port), ... in the order of the source
tryAddrs(a, p) ==
    << [scheme |-> "http",  host |-> a, port |-> p, path |-> ""],
       [scheme |-> "https", host |-> a, port |-> p, path |-> ""],
       [scheme |-> "http",  host |-> a, port |-> p, path |-> "/api/"],
       [scheme |-> "https", host |-> a, port |-> p, path |-> "/api/"] >>

kubernetes == <<"k", "u", "b", "e", "r", "n", "e", "t", "e", "s">>
dashboard == <<"d", "a", "s", "h", "b", "o", "a", "r", "d">>
qversions == <<"\"", "v", "e", "r", "s", "i", "o", "n", "s", "\"">>
qserverAddress == <<"\"", "s", "e", "r", "v", "e", "r", "A", "d", "d", "r", "e", "s", "s">>
qpaths == <<"\"", "p", "a", "t", "h", "s", "\"">>
qapi == <<"\"", "/", "a", "p", "i", "\"">>

\* the condition of the if statement on the lower-cased body
SignatureTest(body) ==
    \/ Contains(body, kubernetes) /\ Contains(body, dashboard)
    \/ Contains(body, qversions) /\ Contains(body, qserverAddress)
    \/ Contains(body, qpaths) /\ Contains(body, qapi)

\* the test on the body as it was read, strings.ToLower left out
IsSignatureAsRead(b) == SignatureTest(b)

\* body := strings.ToLower(string(b)), then the test
IsSignature(b) == SignatureTest(ToLower(b))

\* {"versions":["v1"],"serverAddress":"x"}
BodyVersions ==
    <<"{", "\"", "v", "e", "r", "s", "i", "o", "n", "s", "\"", ":", "[", "\"", "v",
      "1", "\"", "]", ",", "\"", "s", "e", "r", "v", "e", "r", "A", "d", "d", "r",
      "e", "s", "s", "\"", ":", "\"", "x", "\"", "}">>
\* {"paths":{"/api":{}}}
BodyPaths ==
    <<"{", "\"", "p", "a", "t", "h", "s", "\"", ":", "{", "\"", "/", "a", "p", "i",
      "\"", ":", "{", "}", "}", "}">>
\* kubernetes
BodyKubeOnly == <<"k", "u", "b", "e", "r", "n", "e", "t", "e", "s">>

\* the response bodies a probed server answers with
Bodies == {BodyVersions, BodyPaths, BodyKubeOnly}

\* pieces of response bodies, in several letter cases, and the bodies made
\* of up to MaxFragments of them
SigFragments ==
    {kubernetes, dashboard, qversions, qserverAddress, qpaths, qapi,
     <<"K", "u", "b", "e", "r", "n", "e", "t", "e", "s">>,
     <<"D", "A", "S", "H", "B", "O", "A", "R", "D">>,
     <<"\"", "P", "a", "t", "h", "s", "\"">>,
     <<" ">>}

RECURSIVE Concat(_)
Concat(ss) == IF ss = <<>> THEN <<>> ELSE Head(ss) \o Concat(Tail(ss))

SigBodies ==
    {Concat(f) : f \in UNION {[1..n -> SigFragments] : n \in 0..MaxFragments}}
        \cup Bodies

(***************************************************************************)
(* getIPInfo: the ARIN answer and its decoding.                            *)
(***************************************************************************)
\* the zero value of ARINResponse (only Net.Organization is ever read)
ZeroInfo == [Handle |-> "", Name |-> "", Reference |-> ""]

\* a JSON member of orgRef as the server sent it
JAbsent == [kind |-> "absent", s |-> ""]
JNumber == [kind |-> "number", s |-> ""]
JString(x) == [kind |-> "string", s |-> x]

\* the documents the registry answers with: not JSON at all, a full record,
\* and a record whose "@name" is a number
DocMalformed == [json |-> FALSE, handle |-> JAbsent, name |-> JAbsent, ref |-> JAbsent]
DocFull == [json |-> TRUE, handle |-> JString("GOGL"), name |-> JString("Google LLC"),
            ref |-> JString("https://whois.arin.net/rest/org/GOGL")]
DocBadName == [json |-> TRUE, handle |-> JString("GOGL"), name |-> JNumber, ref |-> JAbsent]

ArinDocs == {DocMalformed, DocFull, DocBadName}

\* encoding/json into a string field: a JSON string is stored; any other
\* JSON value leaves the field as it was and is remembered as the error
DecodeField(j) == IF j.kind = "string" THEN j.s ELSE ""
FieldError(j) == j.kind \notin {"string", "absent"}

\* json.NewDecoder(resp.Body).Decode(&b): [b, err].  Text that is not JSON
\* is refused before anything is stored; a member of the wrong JSON type is
\* skipped, the others are stored, and the error is returned at the end.
Decode(doc) ==
    IF ~doc.json THEN [b |-> ZeroInfo, err |-> TRUE]
    ELSE [b   |-> [Handle    |-> DecodeField(doc.handle),
                   Name      |-> DecodeField(doc.name),
                   Reference |-> DecodeField(doc.ref)],
          err |-> FieldError(doc.handle) \/ FieldError(doc.name) \/ FieldError(doc.ref)]

(***************************************************************************)
(* Blocking calls.  A peer answers, fails, or stays silent for ever; a     *)
(* silent peer ends a call only when the call carries a timeout.           *)
(***************************************************************************)
\* the timeout each blocking call is made with: net.DialTimeout(timeoutPing),
\* http.Client{Timeout: timeoutGet}, and http.DefaultClient, which has none
TimeoutOf(call) ==
    CASE call = "dial" -> "timeoutPing"
      [] call = "get"  -> "timeoutGet"
      [] call = "arin" -> "none"

Answers == {"ok", "err", "silent"}

\* what the caller sees of an answer: "ok", "err" or "blocked"
Outcome(call, ans) ==
    IF ans # "silent" THEN ans
    ELSE IF TimeoutOf(call) # "none" THEN "err" ELSE "blocked"

(***************************************************************************)
(* One goroutine: go func(ip string, port int) { defer wg.Done();          *)
(* scanIP(ip, port) }.                                                     *)
(***************************************************************************)
\* the frame of a goroutine that was just started
NewPipe(a, p) ==
    [ip        |-> a,          \* argument ip (the text of the address)
     port      |-> p,          \* argument port
     pc        |-> "portOpen", \* "portOpen", "get", "read", "info", "print",
                               \* "email", "ret", "done", "blocked"
     opened    |-> "unknown",  \* history: portOpen "unknown", "yes", "no"
     i         |-> 0,          \* isKubernetesDashboard: loop index
     err       |-> TRUE,       \* isKubernetesDashboard: err != nil
     uri       |-> NoURI,      \* isKubernetesDashboard: uri
     requested |-> <<>>,       \* history: the requests made, [uri, ok]
     body      |-> <<>>,       \* history: the bytes read from the response
     found     |-> [ok |-> FALSE, uri |-> NoURI],  \* scanIP: ok, uri
     info      |-> ZeroInfo,   \* scanIP: info
     infoErr   |-> FALSE,      \* scanIP: err of getIPInfo
     lookup    |-> "no",       \* history: getIPInfo "no", "called", "returned"
     sent      |-> "no"]       \* history: sendEmail "no", "ok", "err"

Started == 1..Len(pipes)

\* the test without the recipient
MailConfiguredNoRecipient == Len(mail.domain) > 0 /\ Len(mail.key) > 0

\* len(mailgunDomain) > 0 && len(mailgunAPIKey) > 0 && len(emailRecipient) > 0
MailConfigured == Len(mail.domain) > 0 /\ Len(mail.key) > 0 /\ Len(mail.rcpt) > 0

\* the line of fmt.Printf("%s:%d\t%s\t%s\t%s\n", ...)
FindingLine(q) ==
    [ip |-> q.ip, port |-> q.port, handle |-> q.info.Handle,
     name |-> q.info.Name, reference |-> q.info.Reference]

\* PortOpen with a closed port ending the goroutine without wg.Done()
PortOpenNoDone(k) ==
    /\ k \in Started /\ pipes[k].pc = "portOpen"
    /\ \E ans \in Answers :
          pipes' = [pipes EXCEPT
                        ![k].opened = IF Outcome("dial", ans) = "ok" THEN "yes" ELSE "no",
                        ![k].pc = IF Outcome("dial", ans) = "ok" THEN "get" ELSE "done"]
    /\ UNCHANGED <<mainpc, flagVars, loopVars, wg, stdout, mail>>

\* portOpen(ip, port), and the return of scanIP when it is false
PortOpen(k) ==
    /\ k \in Started /\ pipes[k].pc = "portOpen"
    /\ \E ans \in Answers :
          pipes' = [pipes EXCEPT
                        ![k].opened = IF Outcome("dial", ans) = "ok" THEN "yes" ELSE "no",
                        ![k].pc = IF Outcome("dial", ans) = "ok" THEN "get" ELSE "ret"]
    /\ UNCHANGED <<mainpc, flagVars, loopVars, wg, stdout, mail>>

\* Get with the loop condition "i < len(tryAddrs)" alone: every candidate is
\* requested, whatever the earlier ones answered
GetEveryCandidate(k) ==
    /\ k \in Started /\ pipes[k].pc = "get"
    /\ LET q == pipes[k] IN
       /\ q.i < 4
       /\ \E ans \in Answers :
            LET u    == tryAddrs(q.ip, q.port)[q.i + 1]
                e    == Outcome("get", ans) # "ok"
                next == IF q.i + 1 < 4 THEN "get"
                        ELSE IF e THEN "ret" ELSE "read"
            IN  pipes' = [pipes EXCEPT ![k] =
                    [q EXCEPT !.uri = u, !.err = e, !.i = q.i + 1,
                              !.requested = Append(q.requested, [uri |-> u, ok |-> ~e]),
                              !.pc = next]]
    /\ UNCHANGED <<mainpc, flagVars, loopVars, wg, stdout, mail>>

\* one iteration of the loop "for i := 0; i < len(tryAddrs) && err != nil; i++",
\* then, when the loop is left, the test of err behind it
Get(k) ==
    /\ k \in Started /\ pipes[k].pc = "get"
    /\ LET q == pipes[k] IN
       /\ q.i < 4 /\ q.err
       /\ \E ans \in Answers :
            LET u    == tryAddrs(q.ip, q.port)[q.i + 1]
                e    == Outcome("get", ans) # "ok"
                next == IF (q.i + 1 < 4) /\ e THEN "get"
                        ELSE IF e THEN "ret" ELSE "read"
            IN  pipes' = [pipes EXCEPT ![k] =
                    [q EXCEPT !.uri = u, !.err = e, !.i = q.i + 1,
                              !.requested = Append(q.requested, [uri |-> u, ok |-> ~e]),
                              !.pc = next]]
    /\ UNCHANGED <<mainpc, flagVars, loopVars, wg, stdout, mail>>

\* ReadBodyOf returning the URI last requested with a negative verdict too
ReadBodyKeepsURI(k, B) ==
    /\ k \in Started /\ pipes[k].pc = "read"
    /\ LET q == pipes[k] IN
       \/ \* ReadAll fails: return false, ""
          pipes' = [pipes EXCEPT ![k].pc = "ret"]
       \/ \E b \in B :
            pipes' = [pipes EXCEPT ![k] =
                [q EXCEPT !.body = b,
                          !.found = IF IsSignature(b) THEN [ok |-> TRUE, uri |-> q.uri]
                                    ELSE [ok |-> FALSE, uri |-> q.uri],
                          !.pc = IF IsSignature(b) THEN "info" ELSE "ret"]]
    /\ UNCHANGED <<mainpc, flagVars, loopVars, wg, stdout, mail>>

\* ioutil.ReadAll(resp.Body), the signature test, and the test of ok in scanIP
ReadBodyOf(k, B) ==
    /\ k \in Started /\ pipes[k].pc = "read"
    /\ LET q == pipes[k] IN
       \/ \* ReadAll fails: return false, ""
          pipes' = [pipes EXCEPT ![k].pc = "ret"]
       \/ \E b \in B :
            pipes' = [pipes EXCEPT ![k] =
                [q EXCEPT !.body = b,
                          !.found = IF IsSignature(b) THEN [ok |-> TRUE, uri |-> q.uri]
                                    ELSE [ok |-> FALSE, uri |-> NoURI],
                          !.pc = IF IsSignature(b) THEN "info" ELSE "ret"]]
    /\ UNCHANGED <<mainpc, flagVars, loopVars, wg, stdout, mail>>

\* the goroutines of a scan read the bodies of Bodies
ReadBody(k) == ReadBodyOf(k, Bodies)

\* the lookup started in the background, scanIP going on to print at once
GetIPInfoDetached(k) ==
    /\ k \in Started /\ pipes[k].pc = "info"
    /\ pipes' = [pipes EXCEPT ![k].info = ZeroInfo, ![k].infoErr = FALSE,
                              ![k].lookup = "called", ![k].pc = "print"]
    /\ UNCHANGED <<mainpc, flagVars, loopVars, wg, stdout, mail>>

\* info, err := getIPInfo(ip)
GetIPInfo(k) ==
    /\ k \in Started /\ pipes[k].pc = "info"
    /\ LET q == pipes[k] IN
       \/ \* http.NewRequest or http.DefaultClient.Do returns an error
          pipes' = [pipes EXCEPT ![k] = [q EXCEPT !.info = ZeroInfo, !.infoErr = TRUE,
                                                  !.lookup = "returned",
                                                  !.pc = "print"]]
       \/ \* the registry never answers
          pipes' = [pipes EXCEPT ![k] =
                [q EXCEPT !.info = ZeroInfo,
                          !.infoErr = (Outcome("arin", "silent") = "err"),
                          !.lookup = IF Outcome("arin", "silent") = "err"
                                     THEN "returned" ELSE "called",
                          !.pc = IF Outcome("arin", "silent") = "err" THEN "print"
                                 ELSE "blocked"]]
       \/ \E doc \in ArinDocs :
            pipes' = [pipes EXCEPT ![k] =
                [q EXCEPT !.info = Decode(doc).b, !.infoErr = Decode(doc).err,
                          !.lookup = "returned",
                          !.pc = "print"]]
    /\ UNCHANGED <<mainpc, flagVars, loopVars, wg, stdout, mail>>

\* Printf into a buffer that each goroutine resets before it writes
PrintfOverwrite(k) ==
    /\ k \in Started /\ pipes[k].pc = "print"
    /\ stdout' = <<FindingLine(pipes[k])>>
    /\ pipes' = [pipes EXCEPT ![k].pc = IF MailConfigured THEN "email" ELSE "ret"]
    /\ UNCHANGED <<mainpc, flagVars, loopVars, wg, mail>>

\* fmt.Printf of the Finding line, and the test that guards sendEmail
Printf(k) ==
    /\ k \in Started /\ pipes[k].pc = "print"
    /\ stdout' = Append(stdout, FindingLine(pipes[k]))
    /\ pipes' = [pipes EXCEPT ![k].pc = IF MailConfigured THEN "email" ELSE "ret"]
    /\ UNCHANGED <<mainpc, flagVars, loopVars, wg, mail>>

\* sendEmail(uri, ip, port, info); an error is logged, nothing else
SendEmail(k) ==
    /\ k \in Started /\ pipes[k].pc = "email"
    /\ \E res \in {"ok", "err"} :
          pipes' = [pipes EXCEPT ![k].sent = res, ![k].pc = "ret"]
    /\ UNCHANGED <<mainpc, flagVars, loopVars, wg, stdout, mail>>

\* scanIP has returned: the deferred wg.Done()
Done(k) ==
    /\ k \in Started /\ pipes[k].pc = "ret"
    /\ wg' = wg - 1
    /\ pipes' = [pipes EXCEPT ![k].pc = "done"]
    /\ UNCHANGED <<mainpc, flagVars, loopVars, stdout, mail>>

PipeStep(k) ==
    \/ PortOpen(k)
    \/ Get(k)
    \/ ReadBody(k)
    \/ GetIPInfo(k)
    \/ Printf(k)
    \/ SendEmail(k)
    \/ Done(k)

(***************************************************************************)
(* main: the enumeration loop, the fan-out and the join.                   *)
(***************************************************************************)
\* the history of entered addresses stops growing one past the address space
NoteVisit(a) == IF Len(visited) <= Pow2(AddrBits) THEN Append(visited, a) ELSE visited

\* the loop condition ipnet.Contains(ip)
LoopCond ==
    /\ mainpc = "loop"
    /\ IF IPNetContains(ipnet, ip)
       THEN /\ mainpc' = "ports"
            /\ portIdx' = 1
            /\ visited' = NoteVisit(ip)
       ELSE /\ mainpc' = "wait"
            /\ UNCHANGED <<portIdx, visited>>
    /\ UNCHANGED <<flagVars, ipnet, ip, wg, pipes, stdout, mail>>

\* Spawn passing over a port that already has a goroutine for this address
SpawnOncePerPort ==
    /\ mainpc = "ports"
    /\ portIdx <= Len(ports)
    /\ IF \E k \in Started : pipes[k].ip = String(ip) /\ pipes[k].port = ports[portIdx]
       THEN UNCHANGED <<wg, pipes>>
       ELSE /\ wg' = wg + 1
            /\ pipes' = Append(pipes, NewPipe(String(ip), ports[portIdx]))
    /\ portIdx' = portIdx + 1
    /\ UNCHANGED <<mainpc, flagVars, ipnet, ip, visited, stdout, mail>>

\* one iteration of "for _, port := range ports": wg.Add(1), then the go
\* statement, whose arguments ip.String() and port are evaluated here
Spawn ==
    /\ mainpc = "ports"
    /\ portIdx <= Len(ports)
    /\ wg' = wg + 1
    /\ pipes' = Append(pipes, NewPipe(String(ip), ports[portIdx]))
    /\ portIdx' = portIdx + 1
    /\ UNCHANGED <<mainpc, flagVars, ipnet, ip, visited, stdout, mail>>

\* Inc with goroutines that hold the buffer of ip instead of its text: the
\* increment shows in every goroutine started for the address
IncShared ==
    /\ mainpc = "ports"
    /\ portIdx > Len(ports)
    /\ ip' = inc(ip)
    /\ pipes' = [k \in Started |->
                    IF pipes[k].ip = String(ip)
                    THEN [pipes[k] EXCEPT !.ip = String(inc(ip))]
                    ELSE pipes[k]]
    /\ mainpc' = "loop"
    /\ UNCHANGED <<flagVars, ipnet, portIdx, visited, wg, stdout, mail>>

\* the range over ports is exhausted: the post statement inc(ip)
Inc ==
    /\ mainpc = "ports"
    /\ portIdx > Len(ports)
    /\ ip' = inc(ip)
    /\ mainpc' = "loop"
    /\ UNCHANGED <<flagVars, ipnet, portIdx, visited, wg, pipes, stdout, mail>>

\* wg.Wait() returns once the counter is zero
Wait ==
    /\ mainpc = "wait"
    /\ wg = 0
    /\ mainpc' = "report"
    /\ UNCHANGED <<flagVars, loopVars, wg, pipes, stdout, mail>>

\* logrus.Infof("Scan took: %s", ...), and main returns
Report ==
    /\ mainpc = "report"
    /\ mainpc' = "done"
    /\ UNCHANGED <<flagVars, loopVars, wg, pipes, stdout, mail>>

MainStep == LoopCond \/ Spawn \/ Inc \/ Wait \/ Report

(***************************************************************************)
(* Specifications.                                                         *)
(***************************************************************************)
\* "8001"
Text8001 == <<"8", "0", "0", "1">>
\* "1-2"
Text12 == <<"1", "-", "2">>

\* the highest address; the blocks scanned are the single host and the two
\* hosts that end the address space
LastAddr == [k \in 1..IPLen |-> ByteMod - 1]
OneHost == ParseCIDR(LastAddr, AddrBits)
TwoHosts == ParseCIDR(LastAddr, AddrBits - 1)

\* the scans followed goroutine by goroutine: one target; one address and
\* two ports; two addresses and one port
Scans ==
    {[net |-> OneHost, text |-> Text8001],
     [net |-> OneHost, text |-> Text12],
     [net |-> TwoHosts, text |-> Text8001]}

NoMail == [domain |-> <<>>, key |-> <<>>, rcpt |-> <<>>]
AllMail == [domain |-> <<"d">>, key |-> <<"k">>, rcpt |-> <<"r">>]
MailSettings == {NoMail, AllMail, [domain |-> <<"d">>, key |-> <<"k">>, rcpt |-> <<>>]}

\* main after flag.Parse and net.ParseCIDR, about to enter the loop
MainStart(n, v, pp, m) ==
    /\ mainpc = "loop"
    /\ value = v
    /\ ports = pp
    /\ setErr = FALSE
    /\ ipnet = n
    /\ ip = Mask(n.IP, n.Mask)
    /\ portIdx = 1
    /\ visited = <<>>
    /\ wg = 0
    /\ pipes = <<>>
    /\ stdout = <<>>
    /\ mail = m

\* Spec: a scan, goroutine by goroutine
Init ==
    \E sc \in Scans, m \in MailSettings :
        MainStart(sc.net, sc.text, Set(<<>>, sc.text).ports, m)

Next == MainStep \/ \E k \in Started : PipeStep(k)

Spec == Init /\ [][Next]_vars

\* FairSpec: the scans with notification configured, where every goroutine
\* that can take a step eventually takes one (no scan of Scans starts more
\* than two)
InitFair ==
    \E sc \in Scans : MainStart(sc.net, sc.text, Set(<<>>, sc.text).ports, AllMail)

FairSpec ==
    /\ InitFair /\ [][Next]_vars
    /\ WF_vars(MainStep)
    /\ \A k \in {1, 2} : WF_vars(PipeStep(k))

\* SpecEnum: the enumeration of every block of the address space, run
\* without -ports: flag.Parse never calls Set, ports stays nil and the inner
\* loop starts nothing
InitEnum ==
    \E a \in Addrs, prefix \in 0..AddrBits :
        MainStart(ParseCIDR(a, prefix), <<>>, <<>>, NoMail)

NextEnum == LoopCond \/ Inc \/ Wait \/ Report

SpecEnum == InitEnum /\ [][NextEnum]_vars

FairEnum == SpecEnum /\ WF_vars(NextEnum)

\* SpecPorts: flag.Parse handing one -ports text to Set
SpecAlphabet == {"1", "2", "-", ",", "+", "x"}
\* "80-82,443"
Text80to82and443 == <<"8", "0", "-", "8", "2", ",", "4", "4", "3">>
\* "443-80"
Text443to80 == <<"4", "4", "3", "-", "8", "0">>
\* "7-7"
Text7to7 == <<"7", "-", "7">>
\* "65536"
Text65536 == <<"6", "5", "5", "3", "6">>
\* "1,1"
Text11 == <<"1", ",", "1">>

SpecTexts ==
    UNION {[1..n -> SpecAlphabet] : n \in 0..MaxSpecLen}
        \cup {Text80to82and443, Text443to80, Text7to7, Text8001, Text65536}

\* flag.Parse meets -ports: ports.Set(value); an error ends the process
FlagSet ==
    /\ mainpc = "flags"
    /\ \E v \in SpecTexts :
          /\ value' = v
          /\ ports' = Set(ports, v).ports
          /\ setErr' = Set(ports, v).err
          /\ mainpc' = IF Set(ports, v).err THEN "exit" ELSE "parsed"
    /\ UNCHANGED <<loopVars, wg, pipes, stdout, mail>>

InitPorts ==
    /\ mainpc = "flags"
    /\ value = <<>>
    /\ ports = <<>>
    /\ setErr = FALSE
    /\ ipnet = OneHost
    /\ ip = OneHost.IP
    /\ portIdx = 1
    /\ visited = <<>>
    /\ wg = 0
    /\ pipes = <<>>
    /\ stdout = <<>>
    /\ mail = NoMail

NextPorts == FlagSet

SpecPorts == InitPorts /\ [][NextPorts]_vars

\* SpecDup: the scan of one host with -ports 1,1, notification configured
InitDup == MainStart(OneHost, Text11, Set(<<>>, Text11).ports, AllMail)

SpecDup == InitDup /\ [][Next]_vars

\* SpecFlags: command lines holding -ports not at all, once or twice
RepeatTexts == {<<>>, <<"1">>, <<"2">>, Text12, Text11, Text8001, <<"x">>}

\* flag.Parse on a command line without -ports: Set is never called
FlagNone ==
    /\ mainpc = "flags"
    /\ mainpc' = "parsed"
    /\ UNCHANGED <<flagVars, loopVars, wg, pipes, stdout, mail>>

\* flag.Parse meets the first of two -ports occurrences
FlagSetMore ==
    /\ mainpc = "flags"
    /\ \E v \in RepeatTexts :
          /\ value' = v
          /\ ports' = Set(ports, v).ports
          /\ setErr' = Set(ports, v).err
          /\ mainpc' = IF Set(ports, v).err THEN "exit" ELSE "more"
    /\ UNCHANGED <<loopVars, wg, pipes, stdout, mail>>

\* flag.Parse meets the second -ports occurrence: Set on the same intSlice
FlagSetLast ==
    /\ mainpc = "more"
    /\ \E v \in RepeatTexts :
          /\ value' = v
          /\ ports' = Set(ports, v).ports
          /\ setErr' = Set(ports, v).err
          /\ mainpc' = IF Set(ports, v).err THEN "exit" ELSE "repeated"
    /\ UNCHANGED <<loopVars, wg, pipes, stdout, mail>>

NextFlags == FlagNone \/ FlagSet \/ FlagSetMore \/ FlagSetLast

SpecFlags == InitPorts /\ [][NextFlags]_vars

\* SpecSig: the signature test on the body of the one goroutine of a
\* single-host scan, whose n-th request (the first or the last candidate)
\* was the first to succeed
SigPipe(n) ==
    LET q == NewPipe(String(LastAddr), Set(<<>>, Text8001).ports[1])
        c == tryAddrs(q.ip, q.port)
    IN  [q EXCEPT !.pc = "read", !.opened = "yes", !.i = n, !.err = FALSE, !.uri = c[n],
                  !.requested = [j \in 1..n |-> [uri |-> c[j], ok |-> (j = n)]]]

InitSig ==
    /\ mainpc = "ports"
    /\ value = Text8001
    /\ ports = Set(<<>>, Text8001).ports
    /\ setErr = FALSE
    /\ ipnet = OneHost
    /\ ip = OneHost.IP
    /\ portIdx = 2
    /\ visited = <<OneHost.IP>>
    /\ wg = 1
    /\ \E n \in {1, 4} : pipes = <<SigPipe(n)>>
    /\ stdout = <<>>
    /\ mail = NoMail

NextSig == ReadBodyOf(1, SigBodies)

SpecSig == InitSig /\ [][NextSig]_vars

(***************************************************************************)
(* Properties.                                                             *)
(***************************************************************************)
\* the four candidates as the specification orders them
CandidateScheme == <<"http", "https", "http", "https">>
CandidatePath == <<"", "", "/api/", "/api/">>

\* C1: in every goroutine the requests made so far are the first candidates
\* in the order http root, https root, http /api/, https /api/, one request
\* each, and only the last request made can be a successful one: nothing is
\* requested after the first success, whatever the body of that success was;
\* a body that fails the signature test gives a negative result.
StopAtFirstSuccess ==
    \A k \in Started :
        LET q == pipes[k]
            r == q.requested
        IN  /\ Len(r) <= 4
            /\ \A j \in 1..Len(r) :
                  /\ r[j].uri.scheme = CandidateScheme[j]
                  /\ r[j].uri.path = CandidatePath[j]
                  /\ r[j].uri.host = q.ip
                  /\ r[j].uri.port = q.port
            /\ \A j \in 1..(Len(r) - 1) : ~r[j].ok
            /\ (q.pc = "get") => (\A j \in 1..Len(r) : ~r[j].ok)
            /\ (q.pc \in {"ret", "done"} /\ q.body # <<>> /\ ~IsSignature(q.body))
                  => ~q.found.ok

\* C1 witness: candidates 1 and 2 failed, candidate 3 answered with a body
\* that fails the test, and the goroutine has ended with a negative result
\* after three requests
ThirdCandidateNoSignature ==
    \E k \in Started :
        /\ pipes[k].pc = "done"
        /\ Len(pipes[k].requested) = 3
        /\ ~pipes[k].requested[1].ok /\ ~pipes[k].requested[2].ok
        /\ pipes[k].requested[3].ok
        /\ pipes[k].body = BodyKubeOnly
        /\ ~pipes[k].found.ok

\* the number of goroutines started and not yet through wg.Done()
Running == Cardinality({k \in Started : pipes[k].pc # "done"})

\* C6: the WaitGroup counter is never negative and always equals the number
\* of goroutines started and not yet finished, and main is past wg.Wait
\* (at or after the "Scan took" report) only when every started goroutine
\* has finished, whichever way it left scanIP.
JoinBarrier ==
    /\ wg >= 0
    /\ wg = Running
    /\ (mainpc \in {"report", "done"}) => (\A k \in Started : pipes[k].pc = "done")

\* C6 witness: the report was made after two goroutines, one that found the
\* port closed and one whose notification failed
ReportAfterBothExits ==
    /\ mainpc = "done"
    /\ Len(pipes) = 2
    /\ pipes[1].requested = <<>>
    /\ pipes[2].sent = "err"

\* the goroutine has printed its Finding line
HasPrinted(q) == q.pc \in {"email", "ret", "done"} /\ q.found.ok

\* how often a line occurs in a sequence of lines
Occurrences(lines, l) == Cardinality({j \in 1..Len(lines) : lines[j] = l})

\* C8: at every moment, and so at the join, the printed lines are exactly
\* one line per goroutine that classified its target positively and went on
\* to print, each the line of that goroutine's own target and lookup, and
\* no line of any other goroutine; past the join every positive goroutine
\* has its line.
LossFreeAggregation ==
    /\ Len(stdout) = Cardinality({k \in Started : HasPrinted(pipes[k])})
    /\ \A k \in Started :
          HasPrinted(pipes[k]) =>
              Occurrences(stdout, FindingLine(pipes[k])) =
                  Cardinality({j \in Started : /\ HasPrinted(pipes[j])
                                               /\ FindingLine(pipes[j]) = FindingLine(pipes[k])})
    /\ (mainpc \in {"report", "done"}) =>
          \A k \in Started : pipes[k].found.ok <=> HasPrinted(pipes[k])

\* C8 witness: past the join of two goroutines, the first positive with a
\* failed lookup and a failed notification, the second without an answer to
\* any request, exactly the first one's line is printed
OneLineAmongFailures ==
    /\ mainpc = "done"
    /\ Len(pipes) = 2
    /\ pipes[1].found.ok /\ pipes[1].infoErr /\ pipes[1].sent = "err"
    /\ Len(pipes[2].requested) = 4 /\ ~pipes[2].found.ok
    /\ stdout = <<FindingLine(pipes[1])>>

\* the plain-HTTP root URI of a goroutine's target
RootURI(q) == [scheme |-> "http", host |-> q.ip, port |-> q.port, path |-> ""]

\* C2: in the scan of the single host over ports [8001], when the connect
\* succeeded and the plain-HTTP root request returned the body
\* {"versions":["v1"],"serverAddress":"x"}, the finished run has printed
\* exactly one Finding, for that host and port 8001, matched on the root URI.
VersionsBodyIsFinding ==
    ( /\ mainpc = "done"
      /\ ipnet = OneHost /\ ports = <<8001>>
      /\ Len(pipes) = 1
      /\ pipes[1].requested = <<[uri |-> RootURI(pipes[1]), ok |-> TRUE]>>
      /\ pipes[1].body = BodyVersions )
    => /\ Len(stdout) = 1
       /\ stdout[1].ip = String(LastAddr) /\ stdout[1].port = 8001
       /\ pipes[1].found = [ok |-> TRUE, uri |-> RootURI(pipes[1])]

\* C7: a goroutine with a positive match whose getIPInfo returned an error
\* has, once past the print, its Finding line on stdout, and every line
\* printed for its target has empty handle, name and reference.
FailedLookupPrintsEmptyOwner ==
    \A k \in Started :
        (HasPrinted(pipes[k]) /\ pipes[k].infoErr) =>
            /\ \E j \in 1..Len(stdout) :
                  stdout[j].ip = pipes[k].ip /\ stdout[j].port = pipes[k].port
            /\ \A j \in 1..Len(stdout) :
                  (stdout[j].ip = pipes[k].ip /\ stdout[j].port = pipes[k].port) =>
                      /\ stdout[j].handle = ""
                      /\ stdout[j].name = ""
                      /\ stdout[j].reference = ""

\* C5: every goroutine that was started eventually finishes, and main
\* eventually passes wg.Wait and makes its report.
PipelinesAndJoinComplete ==
    /\ \A k \in {1, 2} : (k \in Started) ~> (k \in Started /\ pipes[k].pc = "done")
    /\ <>(mainpc = "done")

\* C3: the enumeration loop is eventually left and main returns, for every
\* block from a single host to the whole address space.
EnumerationTerminates == <>(mainpc = "done")

\* the address as a number, most significant byte first
RECURSIVE AddrValue(_)
AddrValue(a) ==
    IF a = <<>> THEN 0
    ELSE ByteMod * AddrValue(SubSeq(a, 1, Len(a) - 1)) + a[Len(a)]

\* the number of one bits of a byte, and the prefix length of a mask
RECURSIVE OnesOfByte(_)
OnesOfByte(b) == IF b = 0 THEN 0 ELSE (b % 2) + OnesOfByte(b \div 2)

RECURSIVE OnesFrom(_, _)
OnesFrom(m, k) == IF k > Len(m) THEN 0 ELSE OnesOfByte(m[k]) + OnesFrom(m, k + 1)

PrefixLen(m) == OnesFrom(m, 1)

\* the number of addresses of the block being enumerated
BlockSize == Pow2(AddrBits - PrefixLen(ipnet.Mask))

\* C4: the addresses for which the loop body is entered are, in order, the
\* network address and its successors, each one above the one before (so
\* none skipped, none repeated); never more than 2^(w-p) of them; and when
\* the loop is left they are exactly 2^(w-p), the last one the highest
\* address of the block.
EnumeratesBlockOnce ==
    /\ \A j \in 1..Len(visited) :
          AddrValue(visited[j]) = AddrValue(ipnet.IP) + j - 1
    /\ Len(visited) <= BlockSize
    /\ (mainpc \in {"wait", "report", "done"}) => Len(visited) = BlockSize

(***************************************************************************)
(* The grammar of a port specification, as the specification words it.     *)
(***************************************************************************)
\* one or more decimal digits
IsNumber(t) == Len(t) > 0 /\ \A k \in 1..Len(t) : IsDigit(t[k])

\* an integer: one or more digits behind an optional sign
SignedNumber(t) ==
    IF Len(t) > 0 /\ t[1] \in {"+", "-"} THEN IsNumber(Tail(t)) ELSE IsNumber(t)

SignedValue(t) ==
    IF t[1] = "-" THEN 0 - DecimalValue(Tail(t))
    ELSE IF t[1] = "+" THEN DecimalValue(Tail(t))
    ELSE DecimalValue(t)

\* the comma-separated tokens of a text: its maximal stretches without a comma
Fields(v) ==
    {SubSeq(v, x[1], x[2]) : x \in
        {y \in (1..(Len(v) + 1)) \X (0..Len(v)) :
            /\ y[1] <= y[2] + 1
            /\ \A j \in y[1]..y[2] : v[j] # ","
            /\ (y[1] = 1 \/ v[y[1] - 1] = ",")
            /\ (y[2] = Len(v) \/ v[y[2] + 1] = ",")}}

\* t is begin-end, cut at position k
PairAt(t, k) ==
    /\ t[k] = "-"
    /\ SignedNumber(SubSeq(t, 1, k - 1))
    /\ SignedNumber(SubSeq(t, k + 1, Len(t)))

BeginOf(t, k) == SignedValue(SubSeq(t, 1, k - 1))
EndOf(t, k) == SignedValue(SubSeq(t, k + 1, Len(t)))

\* a token that is neither an integer nor a pair of integers, or a pair
\* whose begin is above its end
BadToken(t) ==
    \/ ~SignedNumber(t) /\ ~\E k \in 1..Len(t) : PairAt(t, k)
    \/ \E k \in 1..Len(t) : PairAt(t, k) /\ BeginOf(t, k) > EndOf(t, k)

\* a valid token of the grammar: a non-negative integer, or begin-end of two
\* of them with begin <= end
PortToken(t) ==
    \/ IsNumber(t)
    \/ \E k \in 1..Len(t) :
          /\ t[k] = "-"
          /\ IsNumber(SubSeq(t, 1, k - 1)) /\ IsNumber(SubSeq(t, k + 1, Len(t)))
          /\ BeginOf(t, k) <= EndOf(t, k)

\* first and last port of a valid token
FirstPort(t) ==
    IF IsNumber(t) THEN DecimalValue(t) ELSE BeginOf(t, IndexChar(t, "-"))
LastPort(t) ==
    IF IsNumber(t) THEN DecimalValue(t) ELSE EndOf(t, IndexChar(t, "-"))

\* s counts from b up to e, both included
AscendingRun(s, b, e) ==
    /\ Len(s) = e - b + 1
    /\ s[1] = b /\ s[Len(s)] = e
    /\ \A k \in 1..(Len(s) - 1) : s[k + 1] = s[k] + 1

\* pp is the runs of the tokens, one after the other in token order
RECURSIVE RunsOf(_, _)
RunsOf(pp, toks) ==
    IF toks = <<>> THEN pp = <<>>
    ELSE LET n == LastPort(Head(toks)) - FirstPort(Head(toks)) + 1
         IN  /\ Len(pp) >= n
             /\ AscendingRun(SubSeq(pp, 1, n), FirstPort(Head(toks)), LastPort(Head(toks)))
             /\ RunsOf(SubSeq(pp, n + 1, Len(pp)), Tail(toks))

\* C9: Set on the empty port set, given a non-empty text all of whose
\* tokens are valid, returns no error and leaves the ports of the tokens in
\* text order, each range counted up from begin to end, both included:
\* "80-82,443" gives 80, 81, 82, 443 and "7-7" gives 7.
ValidSpecInOrder ==
    /\ (mainpc # "flags" /\ value # <<>> /\ \A t \in Fields(value) : PortToken(t))
          => /\ ~setErr
             /\ mainpc = "parsed"
             /\ RunsOf(ports, Split(value, ","))
    /\ (value = Text80to82and443) => ports = <<80, 81, 82, 443>>
    /\ (value = Text7to7) => ports = <<7>>

\* C9 witness: "80-82,443" was parsed into 80, 81, 82, 443
Parsed80to82and443 ==
    /\ mainpc = "parsed"
    /\ value = Text80to82and443
    /\ ports = <<80, 81, 82, 443>>

\* C10: Set returns an error for every non-empty text with a token that is
\* neither an integer nor a begin-end pair of integers, or a pair with
\* begin > end ("443-80"); so it returns no error only when every token is
\* an integer or a pair with begin <= end.
RejectsBadTokens ==
    (mainpc # "flags" /\ value # <<>>) =>
        /\ (\E t \in Fields(value) : BadToken(t)) => (setErr /\ mainpc = "exit")
        /\ ~setErr => \A t \in Fields(value) :
                          \/ SignedNumber(t)
                          \/ \E k \in 1..Len(t) : PairAt(t, k) /\ BeginOf(t, k) <= EndOf(t, k)

\* C10 witness: "443-80" was refused
Refused443to80 == mainpc = "exit" /\ value = Text443to80 /\ setErr

\* C11: once the flags are parsed with no port text given (-ports "" or no
\* -ports at all), the port set main ranges over is the default
\* 80, 443, 8001, 9001.
DefaultPortsWhenNoSpec ==
    (mainpc = "parsed" /\ value = <<>>) => ports = <<80, 443, 8001, 9001>>

\* C12: every port of a set that Set accepted, from a single token or from
\* a range, lies within 0..65535.
AcceptedPortsInRange ==
    (mainpc = "parsed") => \A k \in 1..Len(ports) : ports[k] \in 0..65535

\* C14: the port set after an accepted Set call is the resolution of the
\* text of that call alone, whatever the set held before: the runs of its
\* tokens in text order, or the default set for the empty text.
ResolutionIgnoresPriorSet ==
    (mainpc \in {"parsed", "more", "repeated"} /\ ports # <<>>) =>
        /\ (value = <<>>) => ports = <<80, 443, 8001, 9001>>
        /\ (value # <<>> /\ \A t \in Fields(value) : PortToken(t))
              => RunsOf(ports, Split(value, ","))

\* w occurs in b when letter case is ignored
FoldContains(b, w) ==
    \E k \in 0..(Len(b) - Len(w)) :
        \A j \in 1..Len(w) : ToLowerChar(b[k + j]) = ToLowerChar(w[j])

\* the three heuristics of the signature test, letter case ignored
KubeDashboard(b) == FoldContains(b, kubernetes) /\ FoldContains(b, dashboard)
VersionsServer(b) == FoldContains(b, qversions) /\ FoldContains(b, qserverAddress)
PathsApi(b) == FoldContains(b, qpaths) /\ FoldContains(b, qapi)

\* C13: the signature test ignores letter case: a body with "paths" and
\* "/api" is positive, a body with kubernetes and dashboard in any letter
\* case is positive, a body with kubernetes but without dashboard that meets
\* no other heuristic is negative, and a body that meets none of the three
\* heuristics is never positive.
SignatureHeuristics ==
    \A k \in Started :
        LET b == pipes[k].body
            positive == pipes[k].found.ok
        IN  /\ PathsApi(b) => positive
            /\ KubeDashboard(b) => positive
            /\ (FoldContains(b, kubernetes) /\ ~FoldContains(b, dashboard)
                    /\ ~VersionsServer(b) /\ ~PathsApi(b)) => ~positive
            /\ (~KubeDashboard(b) /\ ~VersionsServer(b) /\ ~PathsApi(b)) => ~positive

\* C13 witness: a body with Kubernetes and DASHBOARD in mixed case, and no
\* other heuristic, was classified positive
MixedCaseDashboardFound ==
    \E k \in Started :
        /\ pipes[k].found.ok
        /\ ~Contains(pipes[k].body, kubernetes)
        /\ ~Contains(pipes[k].body, dashboard)
        /\ KubeDashboard(pipes[k].body)
        /\ ~PathsApi(pipes[k].body)

\* the Finding line of the target of q is on standard output
LineOf(q) == \E j \in 1..Len(stdout) : stdout[j].ip = q.ip /\ stdout[j].port = q.port

\* C15: in every goroutine of scanIP the HTTP requests come only after
\* portOpen returned true, getIPInfo only after a positive classification,
\* the Finding line only after a positive classification and the return of
\* getIPInfo, and sendEmail only after the line was printed; after a failed
\* connect or a negative classification there is no later stage, no line
\* and no notification.
StageGating ==
    \A k \in Started :
        LET q == pipes[k] IN
        /\ (q.requested # <<>>) => q.opened = "yes"
        /\ (q.lookup # "no") => q.found.ok
        /\ LineOf(q) => (q.found.ok /\ q.lookup = "returned")
        /\ (q.sent # "no") => LineOf(q)
        /\ (q.opened = "no") =>
              (q.requested = <<>> /\ q.lookup = "no" /\ ~LineOf(q) /\ q.sent = "no")
        /\ (q.pc \in {"ret", "done"} /\ ~q.found.ok) =>
              (q.lookup = "no" /\ ~LineOf(q) /\ q.sent = "no")

\* C15 witness: one goroutine went through all stages and notified, while
\* the other made its requests and stopped at a negative classification
GatedStagesRun ==
    \E j, k \in Started :
        /\ pipes[j].sent # "no" /\ LineOf(pipes[j])
        /\ pipes[k].pc = "done" /\ pipes[k].body # <<>> /\ ~pipes[k].found.ok
        /\ ~LineOf(pipes[k])

\* the goroutines started for address text a and port p
PipesOf(a, p) == {k \in Started : pipes[k].ip = a /\ pipes[k].port = p}

\* C16 as stated: the resolved port set holds no port twice, no target is
\* handled by more than one goroutine and no target has more than one
\* Finding line.
OnePipelinePerTarget ==
    /\ \A j, k \in 1..Len(ports) : (ports[j] = ports[k]) => j = k
    /\ \A j, k \in Started :
          (pipes[j].ip = pipes[k].ip /\ pipes[j].port = pipes[k].port) => j = k
    /\ \A j, k \in 1..Len(stdout) :
          (stdout[j].ip = stdout[k].ip /\ stdout[j].port = stdout[k].port) => j = k

\* C16 amended: the resolved port set keeps one entry per occurrence of a
\* port in the text, and once the loop of main is left each target has as
\* many goroutines as its port has entries; each goroutine prints at most
\* one line, so a target has as many lines as goroutines of it that printed.
OnePipelinePerPortEntry ==
    /\ RunsOf(ports, Split(value, ","))
    /\ \A k \in Started : Cardinality(PipesOf(pipes[k].ip, pipes[k].port)) <=
           Cardinality({j \in 1..Len(ports) : ports[j] = pipes[k].port})
    /\ (mainpc \in {"wait", "report", "done"}) =>
          \A a \in 1..Len(visited), p \in 1..Len(ports) :
              Cardinality(PipesOf(String(visited[a]), ports[p])) =
                  Cardinality({j \in 1..Len(ports) : ports[j] = ports[p]})
    /\ \A k \in Started :
          Cardinality({j \in 1..Len(stdout) : /\ stdout[j].ip = pipes[k].ip
                                              /\ stdout[j].port = pipes[k].port}) =
              Cardinality({j \in PipesOf(pipes[k].ip, pipes[k].port) : HasPrinted(pipes[j])})

\* C16 witness: with -ports 1,1 the one target had two goroutines and both
\* printed its line
SameTargetPrintedTwice ==
    /\ value = Text11 /\ ports = <<1, 1>>
    /\ mainpc = "done"
    /\ Len(pipes) = 2 /\ pipes[1].ip = pipes[2].ip /\ pipes[1].port = pipes[2].port
    /\ Len(stdout) = 2 /\ stdout[1].ip = stdout[2].ip /\ stdout[1].port = stdout[2].port

\* the address and the port that were current when goroutine k was started:
\* goroutines are started address by address, and port by port within one
SpawnAddr(k) == visited[((k - 1) \div Len(ports)) + 1]
SpawnPort(k) == ports[((k - 1) % Len(ports)) + 1]

\* C17: every goroutine keeps the (address, port) pair that was current when
\* it was started: its arguments, every URI it requests and the line it
\* prints name that pair, however far main has advanced ip since; and once
\* the loop is left the targets handed out are exactly the pairs of an
\* enumerated address and a port of the port set.
TargetFixedAtSpawn ==
    /\ \A k \in Started :
          /\ pipes[k].ip = String(SpawnAddr(k))
          /\ pipes[k].port = SpawnPort(k)
          /\ \A j \in 1..Len(pipes[k].requested) :
                /\ pipes[k].requested[j].uri.host = String(SpawnAddr(k))
                /\ pipes[k].requested[j].uri.port = SpawnPort(k)
          /\ HasPrinted(pipes[k]) =>
                \E j \in 1..Len(stdout) : /\ stdout[j].ip = String(SpawnAddr(k))
                                          /\ stdout[j].port = SpawnPort(k)
    /\ (mainpc \in {"wait", "report", "done"}) =>
          {<<pipes[k].ip, pipes[k].port>> : k \in Started} =
              {<<String(visited[a]), ports[p]>> :
                  a \in 1..Len(visited), p \in 1..Len(ports)}

\* C17 witness: two addresses were enumerated, and the goroutine of the first
\* requested and printed under the first address after main had moved on
FirstAddressKept ==
    /\ Len(visited) = 2 /\ Len(pipes) = 2
    /\ ip # visited[1]
    /\ pipes[1].ip = String(visited[1]) /\ pipes[2].ip = String(visited[2])
    /\ pipes[1].ip # pipes[2].ip
    /\ Len(stdout) = 1 /\ stdout[1].ip = String(visited[1])
    /\ pipes[1].requested[1].uri.host = String(visited[1])

\* C18: isKubernetesDashboard returns a positive result only together with
\* the URI of the one candidate whose request succeeded (the last one
\* requested, a candidate of the goroutine's own target), every negative
\* result carries the empty URI, and so the URI is non-empty exactly when
\* the result is positive.
URIOnlyWithPositive ==
    \A k \in Started :
        LET q == pipes[k]
            n == Len(q.requested)
        IN  /\ q.found.ok =>
                  /\ n > 0
                  /\ q.requested[n].ok
                  /\ q.found.uri = q.requested[n].uri
                  /\ q.found.uri = tryAddrs(q.ip, q.port)[n]
                  /\ \A j \in 1..(n - 1) : ~q.requested[j].ok
            /\ ~q.found.ok => q.found.uri = NoURI
            /\ (q.found.uri # NoURI) <=> q.found.ok

\* C18 witness: one goroutine was positive with the second candidate
\* (https, no path) as its URI, the other read a body, was negative and
\* has the empty URI
SecondCandidateReturned ==
    \E j, k \in Started :
        /\ pipes[j].found.ok /\ Len(pipes[j].requested) = 2
        /\ pipes[j].found.uri.scheme = "https" /\ pipes[j].found.uri.path = ""
        /\ pipes[k].pc = "done" /\ pipes[k].body # <<>> /\ ~pipes[k].found.ok
        /\ pipes[k].found.uri = NoURI

\* the three notification settings are all non-empty
AllThreeSet == mail.domain # <<>> /\ mail.key # <<>> /\ mail.rcpt # <<>>

\* C19: sendEmail is attempted for a Finding exactly when the Mailgun
\* domain, the API key and the recipient are all non-empty; a failed send
\* leaves the line printed and the goroutine at its return, and the step
\* that makes the attempt changes neither standard output, nor the counter
\* of the WaitGroup, nor any other goroutine.
NotifyIffAllThreeSet ==
    /\ [](\A k \in Started :
            LET q == pipes[k] IN
            /\ (q.sent # "no") => (AllThreeSet /\ LineOf(q))
            /\ (q.pc = "email") => AllThreeSet
            /\ (HasPrinted(q) /\ q.pc \in {"ret", "done"}) => (q.sent # "no" <=> AllThreeSet)
            /\ (q.sent = "err") => (LineOf(q) /\ q.pc \in {"ret", "done"}))
    /\ [][\A k \in Started :
            (pipes[k].sent = "no" /\ pipes'[k].sent # "no") =>
                /\ stdout' = stdout
                /\ wg' = wg
                /\ mainpc' = mainpc
                /\ pipes'[k].pc = "ret"
                /\ \A j \in Started : j # k => pipes'[j] = pipes[j]]_vars

\* C19 witness: past the join, one goroutine's notification failed and the
\* other's was sent, and both lines are printed
FailedNotifyScanDone ==
    /\ mainpc = "done"
    /\ Len(pipes) = 2 /\ Len(stdout) = 2
    /\ pipes[1].sent = "err" /\ pipes[1].pc = "done"
    /\ pipes[2].sent = "ok"
    /\ AllThreeSet

=============================================================================
